---------------------------- MODULE Spec2Model ----------------------------
(***************************************************************************)
(* Model of the fuel-stop optimizer of django-route-optimizer              *)
(* (src/utils/fuel_optimization.py, class FuelOptimizer), of the station  *)
(* store and cache it reads, and of the view route_by_name                 *)
(* (src/api/views.py) that calls it.                                       *)
(*                                                                         *)
(* Numbers.  Python floats are modelled by exact integers in fixed units:  *)
(*   - a latitude or longitude is an integer number of grid units, one     *)
(*     grid unit being 1/UnitsPerDegree degree (a third of the 0.0001      *)
(*     degree the cache key is rounded to);                                *)
(*   - a geodesic distance is an integer number of 1/MilesScale mile;      *)
(*   - a step distance, segment_distance, search_radius and                *)
(*     miles_per_gallon are integers in their own units (miles, mpg);      *)
(*   - a price (DecimalField(5, 2)) is an integer number of cents, and a   *)
(*     cost is in cents.                                                   *)
(***************************************************************************)
EXTENDS Integers, Sequences, FiniteSets, TLC

VARIABLES
    opt,               \* the module-level FuelOptimizer instance (its four fields)
    store,             \* the FuelData table: a sequence of rows
    cache,             \* django cache: a function from the keys set so far to values
    pc,                \* where the running optimize_fuel_stops call stands
    route,             \* the arguments of the call: route_distance, steps, route_geometry
    check_points,      \* local check_points of optimize_fuel_stops
    bounded_stations,  \* local bounded_stations of optimize_fuel_stops
    result,            \* the tuple optimize_fuel_stops returned (read when pc = "done")
    call,              \* the method the caller called
    error,             \* the exception that ended the call (read when pc = "raised")
    io,                \* what the running call did so far: cache.get calls,
                       \* range queries and cache.set calls
    peer,              \* a second call running at the same time in another worker
    view               \* the request the view route_by_name is serving

vars == <<opt, store, cache, pc, route, check_points, bounded_stations, result,
          call, error, io, peer, view>>

---------------------------------------------------------------------------
(* Units and Python helpers                                                *)

\* 1 degree is approximately 69 miles (buffer_degrees = search_radius / 69)
MilesPerDegree == 69

\* grid units per degree: three grid units per 0.0001 degree
UnitsPerDegree == 3 * 10000

\* geodesic() below yields 1/MilesScale miles
MilesScale == 4 * UnitsPerDegree

\* abs()
Abs(x) == IF x < 0 THEN 0 - x ELSE x

\* floor of the square root: twice the root of n \div 4, or one more
RECURSIVE ISqrt(_)
ISqrt(n) ==
    IF n < 2 THEN n
    ELSE CHOOSE r \in UNION {{s, s + 1} : s \in {2 * ISqrt(n \div 4)}} :
             r * r <= n /\ (r + 1) * (r + 1) > n

\* seq[-1]
Last(seq) == seq[Len(seq)]

\* sum(seq)
RECURSIVE SumSeq(_)
SumSeq(seq) == IF seq = <<>> THEN 0 ELSE Head(seq) + SumSeq(Tail(seq))

\* min() and max() of a non-empty list of numbers
MinOf(seq) == CHOOSE x \in {seq[i] : i \in 1..Len(seq)} :
                  \A j \in 1..Len(seq) : x <= seq[j]
MaxOf(seq) == CHOOSE x \in {seq[i] : i \in 1..Len(seq)} :
                  \A j \in 1..Len(seq) : x >= seq[j]

\* a Python list index: 0-based, a negative index counts from the end
IndexInRange(list, k) == k >= 0 - Len(list) /\ k < Len(list)
PyIndex(list, k) == IF k >= 0 THEN list[k + 1] ELSE list[Len(list) + k + 1]

\* geopy's geodesic(p, q).miles for two (lat, lng) points, in 1/MilesScale
\* miles.  The ellipsoid is flattened to a plane around latitude 41.4 N,
\* where a degree of longitude is 3/4 of a degree of latitude:
\*   miles = 69 * sqrt(dlat^2 + (3/4 dlng)^2) / UnitsPerDegree.
geodesic(p, q) ==
    LET dlat == Abs(p[1] - q[1])
        dlng == Abs(p[2] - q[2])
    IN  MilesPerDegree * ISqrt(16 * dlat * dlat + 9 * dlng * dlng)

---------------------------------------------------------------------------
(* FuelOptimizer                                                           *)

\* FuelOptimizer.__init__: buffer_degrees = search_radius / 69 degrees, here
\* in grid units (rounded down: every coordinate is a whole number of grid
\* units, so x <= buffer_degrees is decided the same way).
FuelOptimizerInit(miles_per_gallon, segment_distance, search_radius) ==
    [miles_per_gallon |-> miles_per_gallon,
     segment_distance |-> segment_distance,
     search_radius    |-> search_radius,
     buffer_degrees   |-> (search_radius * UnitsPerDegree) \div MilesPerDegree]

\* (route_geometry[key_index][1], route_geometry[key_index][0]):
\* geometry holds [lng, lat], a check point is (lat, lng)
CheckPointAt(route_geometry, key_index) ==
    <<PyIndex(route_geometry, key_index)[2], PyIndex(route_geometry, key_index)[1]>>

\* a loop that keeps the overshoot: cumulative_distance -= segment_distance
RECURSIVE StepsLoopKeepsOvershoot(_, _, _, _, _, _)
StepsLoopKeepsOvershoot(self, steps, route_geometry, i, cumulative_distance, cps) ==
    IF i > Len(steps)
    THEN [raised |-> FALSE, check_points |-> cps,
          cumulative_distance |-> cumulative_distance]
    ELSE LET step == steps[i]
             cum  == cumulative_distance + step.distance
         IN  IF cum >= self.segment_distance
             THEN StepsLoopKeepsOvershoot(self, steps, route_geometry, i + 1,
                      cum - self.segment_distance,
                      Append(cps, <<PyIndex(route_geometry, Last(step.way_points))[2],
                                    PyIndex(route_geometry, Last(step.way_points))[1]>>))
             ELSE StepsLoopKeepsOvershoot(self, steps, route_geometry, i + 1, cum, cps)

\* step[key] of a step that has no such key raises KeyError
HasKey(step, key) == key \in DOMAIN step

\* the for loop of calculate_check_points from step i on.  step['distance']
\* is read at every step; step['way_points'] and route_geometry[key_index]
\* are read only at a step that appends a check point: a missing key raises
\* KeyError and an index outside route_geometry IndexError, and the
\* exception ends the call
RECURSIVE StepsLoop(_, _, _, _, _, _)
StepsLoop(self, steps, route_geometry, i, cumulative_distance, cps) ==
    IF i > Len(steps)
    THEN [raised |-> FALSE, check_points |-> cps,
          cumulative_distance |-> cumulative_distance]
    ELSE LET step == steps[i]
         IN  IF ~HasKey(step, "distance")
             THEN [raised |-> TRUE, error |-> "KeyError", check_points |-> cps,
                   cumulative_distance |-> cumulative_distance]
             ELSE LET cum == cumulative_distance + step.distance
                  IN  IF cum >= self.segment_distance
                      THEN IF ~HasKey(step, "way_points")
                           THEN [raised |-> TRUE, error |-> "KeyError",
                                 check_points |-> cps, cumulative_distance |-> cum]
                           ELSE LET key_index == Last(step.way_points)
                                IN  IF IndexInRange(route_geometry, key_index)
                                    THEN StepsLoop(self, steps, route_geometry, i + 1, 0,
                                             Append(cps, CheckPointAt(route_geometry,
                                                                      key_index)))
                                    ELSE [raised |-> TRUE, error |-> "IndexError",
                                          check_points |-> cps,
                                          cumulative_distance |-> cum]
                      ELSE StepsLoop(self, steps, route_geometry, i + 1, cum, cps)

\* a final check point for any distance left: cumulative_distance > 0
FinalCheckPointAnyRest(self, steps, route_geometry, loop) ==
    IF loop.cumulative_distance > 0 /\ steps # <<>>
    THEN [raised |-> FALSE,
          check_points |-> Append(loop.check_points,
              CheckPointAt(route_geometry, Last(Last(steps).way_points)))]
    ELSE [raised |-> FALSE, check_points |-> loop.check_points]

\* a final check point at the end of every route that has steps
FinalCheckPointAlways(self, steps, route_geometry, loop) ==
    IF steps # <<>>
    THEN [raised |-> FALSE,
          check_points |-> Append(loop.check_points,
              CheckPointAt(route_geometry, Last(Last(steps).way_points)))]
    ELSE [raised |-> FALSE, check_points |-> loop.check_points]

\* a final check point also for a rest of exactly half of segment_distance
FinalCheckPointAtHalf(self, steps, route_geometry, loop) ==
    IF 2 * loop.cumulative_distance >= self.segment_distance /\ steps # <<>>
    THEN [raised |-> FALSE,
          check_points |-> Append(loop.check_points,
              CheckPointAt(route_geometry, Last(Last(steps).way_points)))]
    ELSE [raised |-> FALSE, check_points |-> loop.check_points]

\* the final check point: cumulative_distance > segment_distance / 2 and steps
FinalCheckPoint(self, steps, route_geometry, loop) ==
    IF 2 * loop.cumulative_distance > self.segment_distance /\ steps # <<>>
    THEN IF ~HasKey(Last(steps), "way_points")
         THEN [raised |-> TRUE, error |-> "KeyError",
               check_points |-> loop.check_points]
         ELSE LET key_index == Last(Last(steps).way_points)
              IN  IF IndexInRange(route_geometry, key_index)
                  THEN [raised |-> FALSE,
                        check_points |-> Append(loop.check_points,
                                                CheckPointAt(route_geometry, key_index))]
                  ELSE [raised |-> TRUE, error |-> "IndexError",
                        check_points |-> loop.check_points]
    ELSE [raised |-> FALSE, check_points |-> loop.check_points]

\* a planner that decides the final check point by route_distance and takes
\* it from the end of the geometry
calculate_check_points_by_route_distance(self, route_distance, steps, route_geometry) ==
    LET loop == StepsLoop(self, steps, route_geometry, 1, 0, <<>>)
    IN  IF 2 * route_distance > self.segment_distance /\ route_geometry # <<>>
        THEN [raised |-> FALSE,
              check_points |-> Append(loop.check_points,
                                      CheckPointAt(route_geometry, 0 - 1))]
        ELSE [raised |-> FALSE, check_points |-> loop.check_points]

\* FuelOptimizer.calculate_check_points; route_distance is not read
calculate_check_points(self, route_distance, steps, route_geometry) ==
    LET loop == StepsLoop(self, steps, route_geometry, 1, 0, <<>>)
    IN  IF loop.raised
        THEN [raised |-> TRUE, error |-> loop.error,
              check_points |-> loop.check_points]
        ELSE FinalCheckPoint(self, steps, route_geometry, loop)


\* lines 78-81: the bounding box of the check points,
\* <<min_lat, min_lng, max_lat, max_lng>>
BoundingBox(cps) ==
    LET check_lats == [i \in 1..Len(cps) |-> cps[i][1]]
        check_lngs == [i \in 1..Len(cps) |-> cps[i][2]]
    IN  <<MinOf(check_lats), MinOf(check_lngs), MaxOf(check_lats), MaxOf(check_lngs)>>

\* f"{x:.4f}": x rounded to the nearest 0.0001 degree, that is to the nearest
\* multiple of three grid units
Format4f(x) == 3 * ((x + 1) \div 3)

\* the cache key f"stations_bbox_{min_lat:.4f}_{min_lng:.4f}_{max_lat:.4f}_{max_lng:.4f}"
CacheKey(box) == <<"stations_bbox", Format4f(box[1]), Format4f(box[2]),
                   Format4f(box[3]), Format4f(box[4])>>

\* cache.get(key): the value set under the key, or None (found = FALSE)
CacheLookup(c, key) ==
    IF key \in DOMAIN c THEN [found |-> TRUE, value |-> c[key]]
    ELSE [found |-> FALSE, value |-> <<>>]

\* "if cached_stations:" a hit is a value that is neither None nor an empty list
Truthy(got) == got.found /\ got.value # <<>>

\* a cache.set that adds the stations to the list already under the key
CacheStoreExtends(c, key, value) ==
    [k \in DOMAIN c \cup {key} |->
        IF k # key THEN c[k]
        ELSE IF key \in DOMAIN c THEN c[key] \o value ELSE value]

\* a cache.set after cache.clear(): the entry is the only one left
CacheStoreAlone(c, key, value) == [k \in {key} |-> value]

\* cache.set(key, value, CACHE_TIMEOUT)
CacheStore(c, key, value) ==
    [k \in DOMAIN c \cup {key} |-> IF k = key THEN value ELSE c[k]]

\* FuelData.objects.filter(latitude__range=..., longitude__range=...).values(...):
\* the rows of the table inside the box widened by buffer_degrees, both ends
\* of a range included, in table order
RangeQuery(self, table, box) ==
    SelectSeq(table, LAMBDA row :
        /\ row.latitude  >= box[1] - self.buffer_degrees
        /\ row.latitude  <= box[3] + self.buffer_degrees
        /\ row.longitude >= box[2] - self.buffer_degrees
        /\ row.longitude <= box[4] + self.buffer_degrees)

\* lines 127-131: the rectangular check of a station against a check point
WithinRoughBounds(self, check_point, station) ==
    LET lat_diff == Abs(station.latitude - check_point[1])
        lng_diff == Abs(station.longitude - check_point[2])
    IN  lat_diff <= self.buffer_degrees /\ lng_diff <= self.buffer_degrees

\* a selector without the exact test: every station of the rectangle is kept
WithinSearchRadiusSkipped(self, distance) == TRUE

\* lines 133-134: distance <= self.search_radius, distance being
\* geodesic(check_point, (latitude, longitude)).miles
WithinSearchRadius(self, distance) == distance <= self.search_radius * MilesScale

\* lines 122-135: nearby_stations of one check point, a list of
\* (distance, float(retail_price), station) in the order of bounded_stations
RECURSIVE NearbyStations(_, _, _)
NearbyStations(self, check_point, stations) ==
    IF stations = <<>> THEN <<>>
    ELSE LET station  == Head(stations)
             rest     == NearbyStations(self, check_point, Tail(stations))
             distance == geodesic(check_point, <<station.latitude, station.longitude>>)
         IN  IF /\ WithinRoughBounds(self, check_point, station)
                /\ WithinSearchRadius(self, distance)
             THEN <<[distance |-> distance, price |-> station.retail_price,
                     station |-> station]>> \o rest
             ELSE rest

\* the sort key (x[0], x[1]): distance first, then price
KeyLessDistanceFirst(a, b) ==
    \/ a.distance < b.distance
    \/ a.distance = b.distance /\ a.price < b.price

\* the sort key x[1]: the price alone
KeyLessPriceOnly(a, b) == a.price < b.price

\* the sort key, lambda x: (x[1], x[0]): a before b when its (price, distance)
\* is strictly smaller
KeyLess(a, b) ==
    \/ a.price < b.price
    \/ a.price = b.price /\ a.distance < b.distance

\* sorted(nearby_stations, key=...): Python's sort is stable, so of two
\* entries with equal keys the one earlier in the list stays first
RECURSIVE InsertSorted(_, _)
InsertSorted(x, sorted) ==
    IF sorted = <<>> THEN <<x>>
    ELSE IF KeyLess(x, Head(sorted)) THEN <<x>> \o sorted
         ELSE <<Head(sorted)>> \o InsertSorted(x, Tail(sorted))

RECURSIVE Sorted(_)
Sorted(list) ==
    IF list = <<>> THEN <<>>
    ELSE LET n == Len(list)
         IN  InsertSorted(list[n], Sorted(SubSeq(list, 1, n - 1)))

\* lines 145-155: the fuel stop built from cheapest_stations[0]
FuelStop(entry) ==
    [name     |-> entry.station.truckstop_name,
     price    |-> entry.station.retail_price,
     location |-> [lat |-> entry.station.latitude, lng |-> entry.station.longitude],
     distance_from_route |-> entry.distance]

\* a cost that takes the distance of the tuple for its price
StopCostOfDistance(self, entry) ==
    (self.segment_distance \div self.miles_per_gallon) * entry.distance

\* line 156: (self.segment_distance / self.miles_per_gallon) * price, in
\* cents; the division is exact for every optimizer of Optimizers
StopCost(self, entry) ==
    (self.segment_distance \div self.miles_per_gallon) * entry.price

\* a loop that ends at the first check point without a station
RECURSIVE CheckPointsLoopEndsAtGap(_, _, _, _, _, _)
CheckPointsLoopEndsAtGap(self, cps, stations, i, stops, total_cost) ==
    IF i > Len(cps)
    THEN [fuel_stops |-> stops, total_cost |-> total_cost]
    ELSE LET nearby_stations == NearbyStations(self, cps[i], stations)
         IN  IF nearby_stations # <<>>
             THEN LET cheapest == Sorted(nearby_stations)[1]
                  IN  CheckPointsLoopEndsAtGap(self, cps, stations, i + 1,
                                               Append(stops, FuelStop(cheapest)),
                                               total_cost + StopCost(self, cheapest))
             ELSE [fuel_stops |-> stops, total_cost |-> total_cost]

\* a loop that puts each new stop in front: fuel_stops.insert(0, ...)
RECURSIVE CheckPointsLoopPrepends(_, _, _, _, _, _)
CheckPointsLoopPrepends(self, cps, stations, i, stops, total_cost) ==
    IF i > Len(cps)
    THEN [fuel_stops |-> stops, total_cost |-> total_cost]
    ELSE LET nearby_stations == NearbyStations(self, cps[i], stations)
         IN  IF nearby_stations # <<>>
             THEN LET cheapest == Sorted(nearby_stations)[1]
                  IN  CheckPointsLoopPrepends(self, cps, stations, i + 1,
                                              <<FuelStop(cheapest)>> \o stops,
                                              total_cost + StopCost(self, cheapest))
             ELSE CheckPointsLoopPrepends(self, cps, stations, i + 1, stops, total_cost)

\* a loop that takes a chosen station out of the candidates of the check
\* points after it
RECURSIVE CheckPointsLoopUsesOnce(_, _, _, _, _, _)
CheckPointsLoopUsesOnce(self, cps, stations, i, stops, total_cost) ==
    IF i > Len(cps)
    THEN [fuel_stops |-> stops, total_cost |-> total_cost]
    ELSE LET nearby_stations == NearbyStations(self, cps[i], stations)
         IN  IF nearby_stations # <<>>
             THEN LET cheapest == Sorted(nearby_stations)[1]
                  IN  CheckPointsLoopUsesOnce(self, cps,
                          SelectSeq(stations, LAMBDA s : s # cheapest.station),
                          i + 1, Append(stops, FuelStop(cheapest)),
                          total_cost + StopCost(self, cheapest))
             ELSE CheckPointsLoopUsesOnce(self, cps, stations, i + 1, stops, total_cost)

\* lines 140-156 for one check point with nearby stations: the stop and the
\* cost of cheapest_stations[0], added to what the loop has so far
WithCheapest(self, nearby_stations, stops, total_cost) ==
    CHOOSE so_far \in
        {[fuel_stops |-> Append(stops, FuelStop(cheapest)),
          total_cost |-> total_cost + StopCost(self, cheapest)] :
            cheapest \in {Sorted(nearby_stations)[1]}} : TRUE

\* the for loop of find_nearest_cheapest_stations from check point i on;
\* stops and total_cost are fuel_stops and total_cost so far
RECURSIVE CheckPointsLoop(_, _, _, _, _, _)
CheckPointsLoop(self, cps, stations, i, stops, total_cost) ==
    IF i > Len(cps)
    THEN [fuel_stops |-> stops, total_cost |-> total_cost]
    ELSE CHOOSE at_end \in
             {IF nearby_stations # <<>>
              THEN CheckPointsLoop(self, cps, stations, i + 1,
                       WithCheapest(self, nearby_stations, stops, total_cost).fuel_stops,
                       WithCheapest(self, nearby_stations, stops, total_cost).total_cost)
              ELSE CheckPointsLoop(self, cps, stations, i + 1, stops, total_cost) :
                 nearby_stations \in {NearbyStations(self, cps[i], stations)}} : TRUE

\* FuelOptimizer.find_nearest_cheapest_stations
find_nearest_cheapest_stations(self, cps, stations) ==
    CheckPointsLoop(self, cps, stations, 1, <<>>, 0)

---------------------------------------------------------------------------
(* Inputs                                                                  *)

\* the largest number of steps of a route of the planner's specification
MaxSteps == 3

\* the largest number of steps of a route of the specification Spec
MaxLegs == 3

\* the largest number of rows of the FuelData table
MaxStations == 2

\* FuelOptimizer(): the defaults of __init__, and a second vehicle
Optimizers ==
    {FuelOptimizerInit(10, 400, 15), FuelOptimizerInit(5, 300, 10)}

\* route_geometry of the routing provider: [lng, lat] points
Geometry == <<<<0, 3000>>, <<9000, 3000>>, <<9000, 12000>>>>

\* step['way_points'] = [first index, last index] into route_geometry
WayPoints == {<<0, 1>>, <<1, 2>>}

\* step['distance'], in miles
StepDistances == {0, 50, 150, 200, 400}

\* the lists of at most n steps with distances in D
StepLists(D, n) ==
    {<<>>} \cup UNION {[1..k -> [distance : D, way_points : WayPoints]] : k \in 1..n}

\* the arguments of optimize_fuel_stops: a route of at most n steps whose
\* distances are in D.  A route without steps comes with any route_distance
\* and with or without geometry.
Routes(D, n) ==
    {[route_distance |-> SumSeq([i \in 1..Len(st) |-> st[i].distance]),
      steps |-> st, route_geometry |-> Geometry] : st \in StepLists(D, n)}
    \cup {[route_distance |-> d, steps |-> <<>>, route_geometry |-> g] :
             d \in {0, 450}, g \in {<<>>, Geometry}}

\* retail_price, in cents
Prices == {290, 350}

\* (latitude, longitude) of the truck stops.  Seen from the check point
\* (3000, 9000) with search_radius 15: 1.6 miles away; 6.9 miles away (and
\* 13.8 miles from the check point (12000, 9000)); inside the rectangle but
\* 17.3 miles away; 12.1 miles away but outside the rectangle.
Sites == {<<3000, 9900>>, <<6000, 9000>>, <<9000, 15000>>, <<3000, 16000>>}

\* the FuelData tables of at most n rows; row i is named i
Tables(n) ==
    {[i \in DOMAIN f |-> [truckstop_name |-> i, retail_price |-> f[i][1],
                      latitude |-> f[i][2][1], longitude |-> f[i][2][2]]] :
        f \in UNION {[1..k -> Prices \X Sites] : k \in 1..n}}
    \cup {<<>>}

---------------------------------------------------------------------------
(* The program: one request at a time runs optimize_fuel_stops             *)

NoRoute == [route_distance |-> 0, steps |-> <<>>, route_geometry |-> <<>>]
NoResult == [fuel_stops |-> <<>>, total_cost |-> 0, check_points |-> <<>>]

\* a call that has not yet called the cache or the store
NoIO == [gets |-> 0, queries |-> 0, sets |-> 0]

\* no second call is running
NoPeer == [pc |-> "idle", check_points |-> <<>>, bounded_stations |-> <<>>,
           result |-> NoResult, io |-> NoIO]

\* JSON values of a request body: a string, null (also what body.get gives
\* for a key that is missing) and a number
JsonString(text) == [json |-> "string", text |-> text]
JsonNull == [json |-> "null", text |-> ""]
JsonNumber == [json |-> "number", text |-> "123"]

\* no request is being served by route_by_name
NoView == [at |-> "idle",
           body |-> [json |-> "none", start_location |-> JsonNull,
                     finish_location |-> JsonNull],
           ran |-> <<>>, responses |-> <<>>]

\* views.py: fuel_optimizer = FuelOptimizer(...) at import, over a table of
\* at most MaxStations rows and an empty cache
InitWith(tables) ==
    /\ opt \in Optimizers
    /\ store \in tables
    /\ cache = <<>>
    /\ pc = "idle"
    /\ route = NoRoute
    /\ check_points = <<>>
    /\ bounded_stations = <<>>
    /\ result = NoResult
    /\ call = "optimize_fuel_stops"
    /\ error = ""
    /\ io = NoIO
    /\ peer = NoPeer
    /\ view = NoView

Init == InitWith(Tables(MaxStations))

\* the view calls fuel_optimizer.optimize_fuel_stops(distance, steps, coordinates)
\* with the arguments of one of the routes
Request(routes) ==
    /\ pc = "idle"
    /\ \E r \in routes : route' = r
    /\ pc' = "plan"
    /\ call' = "optimize_fuel_stops"
    /\ error' = ""
    /\ io' = NoIO
    /\ UNCHANGED <<opt, store, cache, check_points, bounded_stations, result, peer,
                   view>>

\* where find_stations_in_bounding_box returns to: into optimize_fuel_stops,
\* or to the caller that called it directly
Located == IF call = "optimize_fuel_stops" THEN "select" ELSE "done"

\* optimize_fuel_stops, lines 177-181: calculate_check_points, and the
\* early return of ([], 0, []) when there is no check point
CalculateCheckPoints ==
    /\ pc = "plan"
    /\ LET got == calculate_check_points(opt, route.route_distance, route.steps,
                                         route.route_geometry)
       IN  IF got.raised
           THEN /\ pc' = "raised"
                /\ error' = got.error
                /\ UNCHANGED <<check_points, result>>
           ELSE /\ check_points' = got.check_points
                /\ IF got.check_points = <<>>
                   THEN /\ result' = [fuel_stops |-> <<>>, total_cost |-> 0,
                                      check_points |-> <<>>]
                        /\ pc' = "done"
                   ELSE /\ pc' = "cache_get"
                        /\ UNCHANGED result
                /\ UNCHANGED error
    /\ UNCHANGED <<opt, store, cache, route, bounded_stations, call, io, peer,
                   view>>

\* a find_stations_in_bounding_box without the test of line 74: the cache
\* is asked also for an empty list of check points
CacheGetLooksUpEmpty ==
    /\ pc = "cache_get"
    /\ io' = [io EXCEPT !.gets = @ + 1]
    /\ IF check_points = <<>>
       THEN /\ bounded_stations' = <<>>
            /\ pc' = Located
       ELSE LET got == CacheLookup(cache, CacheKey(BoundingBox(check_points)))
            IN  IF Truthy(got)
                THEN /\ bounded_stations' = got.value
                     /\ pc' = Located
                ELSE /\ pc' = "query"
                     /\ UNCHANGED bounded_stations
    /\ UNCHANGED <<opt, store, cache, route, check_points, result, call, error, peer,
                   view>>

\* find_stations_in_bounding_box, lines 74-90: the empty list for no check
\* point; else cache.get, and the cached list when there is a hit
CacheGet ==
    /\ pc = "cache_get"
    /\ IF check_points = <<>>
       THEN /\ bounded_stations' = <<>>
            /\ pc' = Located
            /\ UNCHANGED io
       ELSE LET got == CacheLookup(cache, CacheKey(BoundingBox(check_points)))
            IN  /\ io' = [io EXCEPT !.gets = @ + 1]
                /\ IF Truthy(got)
                   THEN /\ bounded_stations' = got.value
                        /\ pc' = Located
                   ELSE /\ pc' = "query"
                        /\ UNCHANGED bounded_stations
    /\ UNCHANGED <<opt, store, cache, route, check_points, result, call, error, peer,
                   view>>

\* one range query for each check point instead of one for the box
StoreQueryPerCheckPoint ==
    /\ pc = "query"
    /\ bounded_stations' = RangeQuery(opt, store, BoundingBox(check_points))
    /\ io' = [io EXCEPT !.queries = @ + Len(check_points)]
    /\ pc' = "cache_set"
    /\ UNCHANGED <<opt, store, cache, route, check_points, result, call, error, peer,
                   view>>

\* find_stations_in_bounding_box, lines 93-96: the range query
StoreQuery ==
    /\ pc = "query"
    /\ bounded_stations' = RangeQuery(opt, store, BoundingBox(check_points))
    /\ io' = [io EXCEPT !.queries = @ + 1]
    /\ pc' = "cache_set"
    /\ UNCHANGED <<opt, store, cache, route, check_points, result, call, error, peer,
                   view>>

\* find_stations_in_bounding_box, lines 99-102: cache.set and return
CacheSet ==
    /\ pc = "cache_set"
    /\ cache' = CacheStore(cache, CacheKey(BoundingBox(check_points)), bounded_stations)
    /\ io' = [io EXCEPT !.sets = @ + 1]
    /\ pc' = Located
    /\ UNCHANGED <<opt, store, route, check_points, bounded_stations, result,
                   call, error, peer, view>>

\* line 156 divides by miles_per_gallon at the first check point that has a
\* nearby station: ZeroDivisionError when miles_per_gallon is 0
DividesByZero(self, cps, stations) ==
    /\ self.miles_per_gallon = 0
    /\ \E i \in 1..Len(cps) : NearbyStations(self, cps[i], stations) # <<>>

\* optimize_fuel_stops, lines 187-193: find_nearest_cheapest_stations and
\* the return of (fuel_stops, total_cost, check_points)
FindNearestCheapest ==
    /\ pc = "select"
    /\ IF DividesByZero(opt, check_points, bounded_stations)
       THEN /\ pc' = "raised"
            /\ error' = "ZeroDivisionError"
            /\ UNCHANGED result
       ELSE LET got == find_nearest_cheapest_stations(opt, check_points,
                                                      bounded_stations)
            IN  /\ result' = [fuel_stops |-> got.fuel_stops,
                              total_cost |-> got.total_cost,
                              check_points |-> check_points]
                /\ pc' = "done"
                /\ UNCHANGED error
    /\ UNCHANGED <<opt, store, cache, route, check_points, bounded_stations,
                   call, io, peer, view>>

Steps ==
    \/ CalculateCheckPoints
    \/ CacheGet
    \/ StoreQuery
    \/ CacheSet
    \/ FindNearestCheapest

\* requests with routes of at most MaxLegs steps of 400 miles, each a full
\* segment for either optimizer, over every table
FullSegmentRoutes == Routes({400}, MaxLegs)

Next == Request(FullSegmentRoutes) \/ Steps

Spec == Init /\ [][Next]_vars

\* the planner's specification: every route of at most MaxSteps steps, over
\* one table
InitPlan == InitWith({<<[truckstop_name |-> 1, retail_price |-> 350,
                         latitude |-> 6000, longitude |-> 9000]>>})

PlanRoutes == Routes(StepDistances, MaxSteps)

NextPlan == Request(PlanRoutes) \/ Steps

SpecPlan == InitPlan /\ [][NextPlan]_vars

---------------------------------------------------------------------------
(* Calls one after another, by optimizers that share the cache             *)

\* a call by the optimizer instance o: opt stands for the instance whose
\* method runs; django's cache is one per process, shared by all instances
RequestAs(optimizers, routes) ==
    /\ pc = "idle"
    /\ \E o \in optimizers, r \in routes : opt' = o /\ route' = r
    /\ pc' = "plan"
    /\ call' = "optimize_fuel_stops"
    /\ error' = ""
    /\ io' = NoIO
    /\ UNCHANGED <<store, cache, check_points, bounded_stations, result, peer,
                   view>>

\* a caller calls find_stations_in_bounding_box(check_points) itself
Locate(optimizers, lists) ==
    /\ pc = "idle"
    /\ \E o \in optimizers, cps \in lists : opt' = o /\ check_points' = cps
    /\ pc' = "cache_get"
    /\ call' = "find_stations_in_bounding_box"
    /\ error' = ""
    /\ io' = NoIO
    /\ UNCHANGED <<store, cache, route, bounded_stations, result, peer, view>>

\* the call has returned or raised: its locals are gone, the cache stays
Return ==
    /\ pc \in {"done", "raised"}
    /\ pc' = "idle"
    /\ route' = NoRoute
    /\ check_points' = <<>>
    /\ bounded_stations' = <<>>
    /\ result' = NoResult
    /\ error' = ""
    /\ io' = NoIO
    /\ UNCHANGED <<opt, store, cache, call, peer, view>>

\* the largest number of steps of a route of the specification SpecShared
SharedLegs == 2

\* the geometry of the same road, a third of 0.0001 degree further north:
\* its points have the same latitude to four decimals
GeometryNear == <<<<0, 3001>>, <<9000, 3001>>, <<9000, 12001>>>>

\* routes of at most SharedLegs steps of 400 or 100 miles over either geometry
SharedRoutes ==
    {[route_distance |-> SumSeq([i \in 1..Len(st) |-> st[i].distance]),
      steps |-> st, route_geometry |-> g] :
        st \in StepLists({100, 400}, SharedLegs), g \in {Geometry, GeometryNear}}

\* a truck stop on the southern edge of the rectangle of the check point
\* (3000, 9000) for search_radius 15, 14.99997 miles from it, and one well
\* inside
EdgeStation == [truckstop_name |-> 1, retail_price |-> 290,
                latitude |-> 3000 - 6521, longitude |-> 9000]
InnerStation == [truckstop_name |-> 2, retail_price |-> 350,
                 latitude |-> 6000, longitude |-> 9000]

SharedTables == {<<EdgeStation, InnerStation>>, <<InnerStation>>, <<>>}

\* the check point lists of the direct calls
LocateLists == {<<>>, <<<<3000, 9000>>>>, <<<<3000, 9000>>, <<12000, 9000>>>>}

InitShared == InitWith(SharedTables)

NextShared ==
    \/ RequestAs(Optimizers, SharedRoutes)
    \/ Locate(Optimizers, LocateLists)
    \/ Steps
    \/ Return

SpecShared == InitShared /\ [][NextShared]_vars

---------------------------------------------------------------------------
(* Any configuration, any route, any table                                 *)

\* a caller constructs FuelOptimizer(miles_per_gallon, segment_distance,
\* search_radius): __init__ stores the three arguments as they are and
\* returns
Construct(configurations) ==
    /\ pc = "idle"
    /\ \E c \in configurations :
          opt' = FuelOptimizerInit(c[1], c[2], c[3])
    /\ UNCHANGED <<store, cache, pc, route, check_points, bounded_stations, result,
                   call, error, io, peer, view>>

\* the arguments of the constructor: miles_per_gallon, segment_distance,
\* search_radius
AnyConfigurations == {-10, 0, 10} \X {-400, 0, 400} \X {-15, 0, 15}

\* the largest number of steps of a route of the specification SpecAny
AnyLegs == 2

\* steps as a caller may hand them over: well formed, without 'distance',
\* without 'way_points', or with a last index that is not an index of the
\* three points of Geometry or counts from its end
AnySteps ==
    {[distance |-> 400, way_points |-> <<0, 1>>],
     [distance |-> 100, way_points |-> <<1, 2>>],
     [way_points |-> <<0, 1>>],
     [distance |-> 100],
     [distance |-> 400],
     [distance |-> 100, way_points |-> <<1, 7>>],
     [distance |-> 400, way_points |-> <<1, 7>>],
     [distance |-> 400, way_points |-> <<1, 0 - 1>>],
     [distance |-> 100, way_points |-> <<1, 0 - 4>>]}

AnyRoutes ==
    {[route_distance |-> 450, steps |-> st, route_geometry |-> Geometry] :
        st \in {<<>>} \cup UNION {[1..k -> AnySteps] : k \in 1..AnyLegs}}

\* tables of one row: a truck stop 6.9 miles from the check point
\* (3000, 9000), the same with a price below zero (DecimalField(5, 2) holds
\* any value from -999.99 to 999.99), and a truck stop at the check point
AnyTables ==
    {<<InnerStation>>,
     <<[InnerStation EXCEPT !.retail_price = 0 - 100]>>,
     <<[InnerStation EXCEPT !.latitude = 3000]>>}

InitAny == InitWith(AnyTables)

NextAny ==
    \/ Construct(AnyConfigurations)
    \/ Request(AnyRoutes)
    \/ Steps

SpecAny == InitAny /\ [][NextAny]_vars

---------------------------------------------------------------------------
(* A cache or a store that fails                                           *)

\* cache.get raises (the cache server cannot be reached): no line of
\* find_stations_in_bounding_box or optimize_fuel_stops catches it
CacheGetFails ==
    /\ pc = "cache_get"
    /\ check_points # <<>>
    /\ io' = [io EXCEPT !.gets = @ + 1]
    /\ pc' = "raised"
    /\ error' = "ConnectionError"
    /\ UNCHANGED <<opt, store, cache, route, check_points, bounded_stations, result,
                   call, peer, view>>

\* a failed query that is answered by an empty list, which is then cached
StoreQueryFailsQuietly ==
    /\ pc = "query"
    /\ io' = [io EXCEPT !.queries = @ + 1]
    /\ bounded_stations' = <<>>
    /\ pc' = "cache_set"
    /\ error' = "OperationalError"
    /\ UNCHANGED <<opt, store, cache, route, check_points, result, call, peer,
                   view>>

\* the range query raises (lines 93-96, no try around it): the exception
\* leaves find_stations_in_bounding_box and optimize_fuel_stops
StoreQueryFails ==
    /\ pc = "query"
    /\ io' = [io EXCEPT !.queries = @ + 1]
    /\ pc' = "raised"
    /\ error' = "OperationalError"
    /\ UNCHANGED <<opt, store, cache, route, check_points, bounded_stations, result,
                   call, peer, view>>

\* cache.set raises; the value may or may not have reached the cache
CacheSetFails ==
    /\ pc = "cache_set"
    /\ io' = [io EXCEPT !.sets = @ + 1]
    /\ \E written \in BOOLEAN :
          cache' = IF written
                   THEN CacheStore(cache, CacheKey(BoundingBox(check_points)),
                                   bounded_stations)
                   ELSE cache
    /\ pc' = "raised"
    /\ error' = "ConnectionError"
    /\ UNCHANGED <<opt, store, route, check_points, bounded_stations, result,
                   call, peer, view>>

NextFaults ==
    \/ Request(SharedRoutes)
    \/ Locate(Optimizers, LocateLists)
    \/ Steps
    \/ CacheGetFails
    \/ StoreQueryFails
    \/ CacheSetFails
    \/ Return

SpecFaults == InitShared /\ [][NextFaults]_vars

---------------------------------------------------------------------------
(* Two calls at the same time, in two workers sharing the cache            *)

\* two workers call fuel_optimizer.optimize_fuel_stops with the same route
RequestPair(routes) ==
    /\ pc = "idle"
    /\ peer.pc = "idle"
    /\ \E r \in routes : route' = r
    /\ pc' = "plan"
    /\ peer' = [NoPeer EXCEPT !.pc = "plan"]
    /\ call' = "optimize_fuel_stops"
    /\ error' = ""
    /\ io' = NoIO
    /\ UNCHANGED <<opt, store, cache, check_points, bounded_stations, result,
                   view>>

\* the second call: optimize_fuel_stops, lines 177-181
PeerCalculateCheckPoints ==
    /\ peer.pc = "plan"
    /\ LET got == calculate_check_points(opt, route.route_distance, route.steps,
                                         route.route_geometry)
       IN  peer' = IF got.raised
                   THEN [peer EXCEPT !.pc = "raised"]
                   ELSE IF got.check_points = <<>>
                        THEN [peer EXCEPT !.pc = "done", !.result = NoResult]
                        ELSE [peer EXCEPT !.pc = "cache_get",
                                          !.check_points = got.check_points]
    /\ UNCHANGED <<opt, store, cache, pc, route, check_points, bounded_stations,
                   result, call, error, io, view>>

\* the second call: find_stations_in_bounding_box, lines 74-90
PeerCacheGet ==
    /\ peer.pc = "cache_get"
    /\ LET got == CacheLookup(cache, CacheKey(BoundingBox(peer.check_points)))
       IN  peer' = IF Truthy(got)
                   THEN [peer EXCEPT !.pc = "select", !.bounded_stations = got.value,
                                     !.io.gets = @ + 1]
                   ELSE [peer EXCEPT !.pc = "query", !.io.gets = @ + 1]
    /\ UNCHANGED <<opt, store, cache, pc, route, check_points, bounded_stations,
                   result, call, error, io, view>>

\* the second call: find_stations_in_bounding_box, lines 93-96
PeerStoreQuery ==
    /\ peer.pc = "query"
    /\ peer' = [peer EXCEPT !.pc = "cache_set", !.io.queries = @ + 1,
                   !.bounded_stations =
                       RangeQuery(opt, store, BoundingBox(peer.check_points))]
    /\ UNCHANGED <<opt, store, cache, pc, route, check_points, bounded_stations,
                   result, call, error, io, view>>

\* the second call: find_stations_in_bounding_box, lines 99-102
PeerCacheSet ==
    /\ peer.pc = "cache_set"
    /\ cache' = CacheStore(cache, CacheKey(BoundingBox(peer.check_points)),
                           peer.bounded_stations)
    /\ peer' = [peer EXCEPT !.pc = "select", !.io.sets = @ + 1]
    /\ UNCHANGED <<opt, store, pc, route, check_points, bounded_stations,
                   result, call, error, io, view>>

\* the second call: optimize_fuel_stops, lines 187-193
PeerFindNearestCheapest ==
    /\ peer.pc = "select"
    /\ peer' = IF DividesByZero(opt, peer.check_points, peer.bounded_stations)
               THEN [peer EXCEPT !.pc = "raised"]
               ELSE LET got == find_nearest_cheapest_stations(opt, peer.check_points,
                                                              peer.bounded_stations)
                    IN  [peer EXCEPT !.pc = "done",
                                     !.result = [fuel_stops |-> got.fuel_stops,
                                                 total_cost |-> got.total_cost,
                                                 check_points |-> peer.check_points]]
    /\ UNCHANGED <<opt, store, cache, pc, route, check_points, bounded_stations,
                   result, call, error, io, view>>

PeerSteps ==
    \/ PeerCalculateCheckPoints
    \/ PeerCacheGet
    \/ PeerStoreQuery
    \/ PeerCacheSet
    \/ PeerFindNearestCheapest

\* both calls have returned or raised
ReturnBoth ==
    /\ pc \in {"done", "raised"}
    /\ peer.pc \in {"done", "raised"}
    /\ pc' = "idle"
    /\ peer' = NoPeer
    /\ route' = NoRoute
    /\ check_points' = <<>>
    /\ bounded_stations' = <<>>
    /\ result' = NoResult
    /\ error' = ""
    /\ io' = NoIO
    /\ UNCHANGED <<opt, store, cache, call, view>>

\* the largest number of steps of a route of the specification SpecPair
PairLegs == 2

\* routes of at most PairLegs steps of 400 miles
PairRoutes ==
    {[route_distance |-> SumSeq([i \in 1..Len(st) |-> st[i].distance]),
      steps |-> st, route_geometry |-> Geometry] : st \in StepLists({400}, PairLegs)}

\* the tables of the specification SpecPair
PairTables == {<< EdgeStation, InnerStation >>, << >>}

InitPair == InitWith(PairTables)

NextPair ==
    \/ RequestPair(PairRoutes)
    \/ Steps
    \/ PeerSteps
    \/ ReturnBoth

\* each worker runs its call to completion whatever the other does
SpecPair ==
    /\ InitPair
    /\ [][NextPair]_vars
    /\ WF_vars(Steps)
    /\ WF_vars(PeerSteps)

---------------------------------------------------------------------------
(* The view route_by_name: geocoding, routing, the optimizer, the map      *)

\* "not value" of Python: true of None and of the empty string
Falsy(value) == value.json = "null" \/ (value.json = "string" /\ value.text = "")

\* what a client may send as start_location and finish_location
LocationValues == {JsonNull, JsonString(""), JsonString("Chicago, IL"), JsonNumber}

\* the bodies of the requests: a JSON object with the two locations, or a
\* JSON array
Bodies ==
    {[json |-> "object", start_location |-> a, finish_location |-> b] :
        a \in LocationValues, b \in LocationValues}
    \cup {[json |-> "array", start_location |-> JsonNull, finish_location |-> JsonNull]}

\* the view returns Response(..., status=code)
Respond(code) == [view EXCEPT !.at = "responded", !.responses = Append(@, code)]

\* the stage has been called and has ended in the outcome
Ran(stage, outcome) == Append(view.ran, [stage |-> stage, outcome |-> outcome])

\* POST /api/route-by-name/ reaches the view
Post(bodies) ==
    /\ view.at = "idle"
    /\ pc = "idle"
    /\ \E b \in bodies : view' = [NoView EXCEPT !.at = "validate", !.body = b]
    /\ UNCHANGED <<opt, store, cache, pc, route, check_points, bounded_stations,
                   result, call, error, io, peer>>

\* lines 321-330: body.get of the two names (AttributeError for a body that
\* is no object, caught by "except Exception": 500), and 400 when one of
\* them is missing or empty
Validate ==
    /\ view.at = "validate"
    /\ view' = IF view.body.json # "object" THEN Respond(500)
               ELSE IF Falsy(view.body.start_location)
                       \/ Falsy(view.body.finish_location)
                    THEN Respond(400)
                    ELSE [view EXCEPT !.at = "geocode_start"]
    /\ UNCHANGED <<opt, store, cache, pc, route, check_points, bounded_stations,
                   result, call, error, io, peer>>

\* geocoding_service.geocode(value) and the test of its result.  geocode
\* returns the coordinates, or None (no result, or an error of the provider
\* caught inside geocode: 400), or raises: value.strip() of a value that is
\* no string and cache.get are outside its try, and the exception is caught
\* by "except Exception" of the view (500)
Geocode(stage, value, next) ==
    /\ view.at = stage
    /\ \E outcome \in {"ok", "none", "raised"} :
          /\ value.json = "string" \/ outcome = "raised"
          /\ view' = IF outcome = "ok"
                     THEN [view EXCEPT !.at = next, !.ran = Ran(stage, "ok")]
                     ELSE [Respond(IF outcome = "none" THEN 400 ELSE 500)
                              EXCEPT !.ran = Ran(stage, outcome)]
    /\ UNCHANGED <<opt, store, cache, pc, route, check_points, bounded_stations,
                   result, call, error, io, peer>>

\* lines 333-339
GeocodeStart == Geocode("geocode_start", view.body.start_location, "geocode_finish")

\* lines 341-347
GeocodeFinish == Geocode("geocode_finish", view.body.finish_location, "get_route")

\* a stage that returns or raises; what it raises ends the view in 500
Stage(stage, next) ==
    /\ view.at = stage
    /\ \E outcome \in {"ok", "raised"} :
          view' = IF outcome = "ok"
                  THEN [view EXCEPT !.at = next, !.ran = Ran(stage, "ok")]
                  ELSE [Respond(500) EXCEPT !.ran = Ran(stage, "raised")]
    /\ UNCHANGED <<opt, store, cache, pc, route, check_points, bounded_stations,
                   result, call, error, io, peer>>

\* lines 350-356: routing_service.get_route; its ValueError is answered by
\* 500, and so is any other exception
GetRoute == Stage("get_route", "extract_route_info")

\* line 359: routing_service.extract_route_info
ExtractRouteInfo == Stage("extract_route_info", "optimize_fuel_stops")

\* lines 362-366: the call of fuel_optimizer.optimize_fuel_stops with the
\* distance, the steps and the coordinates of the route
Optimize(routes) ==
    /\ view.at = "optimize_fuel_stops"
    /\ pc = "idle"
    /\ \E r \in routes : route' = r
    /\ pc' = "plan"
    /\ call' = "optimize_fuel_stops"
    /\ error' = ""
    /\ io' = NoIO
    /\ view' = [view EXCEPT !.at = "optimizing",
                            !.ran = Ran("optimize_fuel_stops", "running")]
    /\ UNCHANGED <<opt, store, cache, check_points, bounded_stations, result, peer>>

\* optimize_fuel_stops has returned, or has raised (500)
Optimized ==
    /\ view.at = "optimizing"
    /\ pc \in {"done", "raised"}
    /\ view' = IF pc = "done"
               THEN [view EXCEPT !.at = "generate_map",
                                 !.ran[Len(view.ran)].outcome = "ok"]
               ELSE [Respond(500) EXCEPT !.ran[Len(view.ran)].outcome = "raised"]
    /\ pc' = "idle"
    /\ route' = NoRoute
    /\ check_points' = <<>>
    /\ bounded_stations' = <<>>
    /\ result' = NoResult
    /\ error' = ""
    /\ io' = NoIO
    /\ UNCHANGED <<opt, store, cache, call, peer>>

\* lines 369-374 and 377-400: map_generator.generate_map, and the response
\* with the result
GenerateMap ==
    /\ view.at = "generate_map"
    /\ \E outcome \in {"ok", "raised"} :
          view' = [Respond(IF outcome = "ok" THEN 200 ELSE 500)
                      EXCEPT !.ran = Ran("generate_map", outcome)]
    /\ UNCHANGED <<opt, store, cache, pc, route, check_points, bounded_stations,
                   result, call, error, io, peer>>

\* the response has been sent; the worker takes the next request
Responded ==
    /\ view.at = "responded"
    /\ view' = NoView
    /\ UNCHANGED <<opt, store, cache, pc, route, check_points, bounded_stations,
                   result, call, error, io, peer>>

\* the routes the routing provider answers with: no step, one or two steps
\* of 400 miles, and a step whose last index is outside the geometry
ViewRoutes ==
    {[route_distance |-> SumSeq([i \in 1..Len(st) |-> st[i].distance]),
      steps |-> st, route_geometry |-> Geometry] :
        st \in {<<>>,
                <<[distance |-> 400, way_points |-> <<0, 1>>]>>,
                <<[distance |-> 400, way_points |-> <<0, 1>>],
                  [distance |-> 400, way_points |-> <<1, 2>>]>>,
                <<[distance |-> 400, way_points |-> <<1, 7>>]>>}}

InitView == InitWith(PairTables)

NextView ==
    \/ Post(Bodies)
    \/ Validate
    \/ GeocodeStart
    \/ GeocodeFinish
    \/ GetRoute
    \/ ExtractRouteInfo
    \/ Optimize(ViewRoutes)
    \/ Steps
    \/ Optimized
    \/ GenerateMap
    \/ Responded

SpecView == InitView /\ [][NextView]_vars

---------------------------------------------------------------------------
(* Properties                                                              *)

fuel_stops == result.fuel_stops

\* the location of a fuel stop or of a station, as a (lat, lng) point
StopPoint(stop) == <<stop.location.lat, stop.location.lng>>
StationPoint(station) == <<station.latitude, station.longitude>>

\* the rectangular prefilter and the exact radius test of a check point and a
\* station
InRectangle(cp, station) ==
    /\ Abs(station.latitude - cp[1]) <= opt.buffer_degrees
    /\ Abs(station.longitude - cp[2]) <= opt.buffer_degrees
InRadius(cp, station) ==
    geodesic(cp, StationPoint(station)) <= opt.search_radius * MilesScale

\* the candidates of a check point that pass both filters
Survivors(cp) ==
    {bounded_stations[k] : k \in {j \in 1..Len(bounded_stations) :
        /\ InRectangle(cp, bounded_stations[j])
        /\ InRadius(cp, bounded_stations[j])}}

\* the check points that have a surviving candidate, in route order: the
\* i-th fuel stop is the stop of the i-th of them
Served == SelectSeq(check_points, LAMBDA cp : Survivors(cp) # {})

\* C1: at the return of optimize_fuel_stops, the i-th fuel stop is the stop
\* of the i-th check point that has a candidate passing both filters; its
\* distance_from_route is the geodesic distance from that check point to the
\* stop, and that distance is at most search_radius.
C1_WithinSearchRadius ==
    pc = "done" =>
        LET served == Served
        IN  /\ Len(fuel_stops) = Len(served)
            /\ \A i \in 1..Len(fuel_stops) :
                  LET stop == fuel_stops[i]
                  IN  /\ stop.distance_from_route
                            = geodesic(served[i], StopPoint(stop))
                      /\ stop.distance_from_route <= opt.search_radius * MilesScale

\* a check point got its stop while a strictly cheaper candidate passed the
\* rectangle of that check point and failed the radius test
C1_Witness ==
    /\ pc = "done"
    /\ LET served == Served
       IN  /\ Len(fuel_stops) = Len(served)
           /\ \E i \in 1..Len(fuel_stops) : \E k \in 1..Len(bounded_stations) :
                 /\ InRectangle(served[i], bounded_stations[k])
                 /\ ~InRadius(served[i], bounded_stations[k])
                 /\ bounded_stations[k].retail_price < fuel_stops[i].price

\* C2: at the return, no candidate that passes both filters of a check
\* point is strictly cheaper than the stop chosen for that check point.
C2_PriceDominates ==
    pc = "done" =>
        LET served == Served
        IN  /\ Len(fuel_stops) = Len(served)
            /\ \A i \in 1..Len(fuel_stops) : \A station \in Survivors(served[i]) :
                  fuel_stops[i].price <= station.retail_price

\* the stop chosen is cheaper and farther than another surviving candidate
C2_Witness ==
    /\ pc = "done"
    /\ LET served == Served
       IN  /\ Len(fuel_stops) = Len(served)
           /\ \E i \in 1..Len(fuel_stops) : \E station \in Survivors(served[i]) :
                 /\ fuel_stops[i].price < station.retail_price
                 /\ geodesic(served[i], StationPoint(station))
                       < fuel_stops[i].distance_from_route

\* the least price of a non-empty set of stations
MinPrice(stations) ==
    CHOOSE p \in {s.retail_price : s \in stations} :
        \A s \in stations : p <= s.retail_price

\* C3: at the return, the stop of a check point has the least price among
\* the survivors, and no survivor of that price is nearer to the check point.
C3_DistanceTieBreak ==
    pc = "done" =>
        LET served == Served
        IN  /\ Len(fuel_stops) = Len(served)
            /\ \A i \in 1..Len(fuel_stops) :
                  LET survivors == Survivors(served[i])
                      least     == MinPrice(survivors)
                  IN  /\ fuel_stops[i].price = least
                      /\ \A station \in survivors :
                            station.retail_price = least =>
                                fuel_stops[i].distance_from_route
                                    <= geodesic(served[i], StationPoint(station))

\* two survivors of a check point share the least price, and the farther
\* one comes first in the candidate list
C3_Witness ==
    /\ pc = "done"
    /\ \E cp \in {check_points[i] : i \in 1..Len(check_points)} :
          LET survivors == Survivors(cp)
          IN  \E j, k \in 1..Len(bounded_stations) :
                 /\ j < k
                 /\ bounded_stations[j] \in survivors
                 /\ bounded_stations[k] \in survivors
                 /\ bounded_stations[j].retail_price = MinPrice(survivors)
                 /\ bounded_stations[k].retail_price = MinPrice(survivors)
                 /\ geodesic(cp, StationPoint(bounded_stations[j]))
                       > geodesic(cp, StationPoint(bounded_stations[k]))

\* the state after calculate_check_points returned
Planned == pc \in {"cache_get", "query", "cache_set", "select", "done"}

\* the accumulator after the first i steps:
\* a step that brings it to segment_distance or more leaves it at 0
RECURSIVE Accumulated(_)
Accumulated(i) ==
    IF i = 0 THEN 0
    ELSE LET a == Accumulated(i - 1) + route.steps[i].distance
         IN  IF a >= opt.segment_distance THEN 0 ELSE a

\* the steps at which the accumulator reaches segment_distance, in order
Emitting ==
    SelectSeq([i \in 1..Len(route.steps) |-> i],
              LAMBDA i : Accumulated(i - 1) + route.steps[i].distance
                             >= opt.segment_distance)

\* (lat, lng) of the point of the geometry a step ends at; the geometry
\* holds [lng, lat]
StepEnd(i) ==
    LET point == route.route_geometry[route.steps[i].way_points[2] + 1]
    IN  <<point[2], point[1]>>

\* C4: calculate_check_points returns, for every step at which the
\* accumulator reaches segment_distance, in order, the (lat, lng) of the
\* step's last waypoint, the accumulator starting again at 0 after each, and
\* after them one more check point exactly when the rest is more than half
\* of segment_distance; steps of 150, 150, 150 miles with segment_distance
\* 400 give the single check point at the end of step 3.
C4_CheckPointEmission ==
    Planned =>
        /\ Len(check_points) = Len(Emitting)
              + (IF 2 * Accumulated(Len(route.steps)) > opt.segment_distance
                 THEN 1 ELSE 0)
        /\ \A n \in 1..Len(Emitting) : check_points[n] = StepEnd(Emitting[n])
        /\ (/\ opt.segment_distance = 400
            /\ [i \in 1..Len(route.steps) |-> route.steps[i].distance]
                  = <<150, 150, 150>>)
           => check_points = <<StepEnd(3)>>

\* the route of three steps of 150 miles was planned with segment_distance
\* 400, its third step ending at another point than its second
C4_Witness ==
    /\ Planned
    /\ opt.segment_distance = 400
    /\ [i \in 1..Len(route.steps) |-> route.steps[i].distance] = <<150, 150, 150>>
    /\ route.steps[2].way_points # route.steps[3].way_points
    /\ check_points = <<StepEnd(3)>>

\* C5: a call with no steps returns ([], 0, []) straight from the planner,
\* with no check point, whatever route_distance and route_geometry are.
C5_NoStepsEmptyResult ==
    (pc # "idle" /\ route.steps = <<>>) =>
        /\ pc \in {"plan", "done"}
        /\ check_points = <<>>
        /\ pc = "done" =>
              result = [fuel_stops |-> <<>>, total_cost |-> 0, check_points |-> <<>>]

\* a call with no steps, a route_distance of 450 miles and a geometry of
\* three points has returned
C5_Witness ==
    /\ pc = "done"
    /\ route.steps = <<>>
    /\ route.route_distance = 450
    /\ Len(route.route_geometry) = 3

\* the total distance of the steps of the route
TotalDistance == SumSeq([i \in 1..Len(route.steps) |-> route.steps[i].distance])

\* C6: a route whose steps add up to less than half of segment_distance
\* gets no check point.
C6_ShortRouteNoCheckPoint ==
    (pc \notin {"idle", "plan"} /\ 2 * TotalDistance < opt.segment_distance) =>
        /\ pc = "done"
        /\ check_points = <<>>
        /\ result.check_points = <<>>

\* a route of two steps or more, shorter than half of segment_distance, has
\* been planned
C6_Witness ==
    /\ pc = "done"
    /\ Len(route.steps) >= 2
    /\ TotalDistance > 0
    /\ 2 * TotalDistance < opt.segment_distance
    /\ check_points = <<>>

\* C10: calculate_check_points returns at most
\* ceil(total distance / segment_distance) check points, the trailing one
\* counted.
C10_AtMostCeilCheckPoints ==
    pc \notin {"idle", "plan"} =>
        Len(check_points) * opt.segment_distance
            < TotalDistance + opt.segment_distance

\* a route got exactly ceil(total / segment_distance) check points, the
\* last of them the trailing one, without being a multiple of
\* segment_distance
C10_Witness ==
    /\ Planned
    /\ Len(check_points) = Len(Emitting) + 1
    /\ Len(check_points) >= 2
    /\ (Len(check_points) - 1) * opt.segment_distance < TotalDistance
    /\ TotalDistance < Len(check_points) * opt.segment_distance

\* C7: the total cost returned is the sum, over the fuel stops returned, of
\* (segment_distance / miles_per_gallon) * price of the stop.
C7_TotalCostIsSumOverStops ==
    pc = "done" =>
        result.total_cost
            = SumSeq([i \in 1..Len(fuel_stops) |->
                  (opt.segment_distance \div opt.miles_per_gallon) * fuel_stops[i].price])

\* two stops at $3.50 and a check point without a stop between or around
\* them, with segment_distance 400 and 10 miles per gallon: 140.00 * 2
C7_Witness ==
    /\ pc = "done"
    /\ opt.segment_distance = 400 /\ opt.miles_per_gallon = 10
    /\ Len(check_points) > Len(fuel_stops)
    /\ Len(fuel_stops) = 2
    /\ \A i \in 1..2 : fuel_stops[i].price = 350
    /\ result.total_cost = 2 * 14000

\* C8: a check point without a surviving candidate adds no stop and no
\* cost and ends nothing: the call returns (stops, total_cost, check_points)
\* with one stop for each of the other check points, and with no stop and a
\* cost of 0 when no check point has a surviving candidate.
C8_CoverageGapIsNoError ==
    /\ pc # "raised"
    /\ pc = "done" =>
          LET served == Served
          IN  /\ result.check_points = check_points
              /\ Len(fuel_stops) = Len(served)
              /\ Len(served) = 0 => (fuel_stops = <<>> /\ result.total_cost = 0)
              /\ result.total_cost
                    = SumSeq([i \in 1..Len(served) |->
                          (opt.segment_distance \div opt.miles_per_gallon)
                              * MinPrice(Survivors(served[i]))])

\* the first check point had candidates but none that survived, and the
\* check point after it got a stop
C8_Witness ==
    /\ pc = "done"
    /\ Len(check_points) >= 2
    /\ bounded_stations # <<>>
    /\ Survivors(check_points[1]) = {}
    /\ Survivors(check_points[2]) # {}
    /\ Len(fuel_stops) = 1

\* the places in check_points of the check points that have a survivor
ServedAt == SelectSeq([i \in 1..Len(check_points) |-> i],
                      LAMBDA i : Survivors(check_points[i]) # {})

\* C9: the result has at most as many fuel stops as check points; the
\* stops are those of the check points that have a surviving candidate,
\* one each, in the order of these check points.
C9_StopsFollowCheckPoints ==
    pc = "done" =>
        LET at == ServedAt
        IN  /\ Len(fuel_stops) <= Len(result.check_points)
            /\ Len(fuel_stops) = Len(at)
            /\ \A n \in 1..Len(fuel_stops) :
                  \E station \in Survivors(result.check_points[at[n]]) :
                      /\ fuel_stops[n].name = station.truckstop_name
                      /\ StopPoint(fuel_stops[n]) = StationPoint(station)
                      /\ fuel_stops[n].price = station.retail_price

\* three check points with a stop each, the first two at different
\* stations neither of which could serve the other's check point
C9_Witness ==
    /\ pc = "done"
    /\ Len(check_points) = 3
    /\ ServedAt = <<1, 2, 3>>
    /\ Len(fuel_stops) = 3
    /\ fuel_stops[1].name # fuel_stops[2].name
    /\ \A station \in Survivors(check_points[1]) :
          station.truckstop_name # fuel_stops[2].name
    /\ \A station \in Survivors(check_points[2]) :
          station.truckstop_name # fuel_stops[1].name

\* the miles driven when step i ends, counted from the previous check point
\* (from the start of the route before the first one)
LegTo(i) == Accumulated(i - 1) + route.steps[i].distance

\* C11: the step distances from the start of the route to the first check
\* point, and from one check point to the next, add up to at most
\* segment_distance.
C11_SegmentDistanceIsMaximum ==
    Planned =>
        /\ \A n \in 1..Len(Emitting) : LegTo(Emitting[n]) <= opt.segment_distance
        /\ Accumulated(Len(route.steps)) <= opt.segment_distance

\* the stations the range query of the running call returns: those of the
\* store inside the box of its check points widened by its buffer_degrees
QueriedStations == RangeQuery(opt, store, BoundingBox(check_points))

\* find_stations_in_bounding_box took its list from the cache
CacheHit == /\ pc \in {"select", "done"}
            /\ check_points # <<>>
            /\ io.gets = 1
            /\ io.queries = 0

\* C12: on a cache hit find_stations_in_bounding_box returns exactly the
\* stations the range query for the check points' box widened by the
\* optimizer's buffer_degrees would return, and optimize_fuel_stops returns
\* what it returns with a cache that always misses.
C12_CacheIsPureOptimization ==
    /\ CacheHit => bounded_stations = QueriedStations
    /\ (pc = "done" /\ call = "optimize_fuel_stops" /\ check_points # <<>>) =>
          LET got == find_nearest_cheapest_stations(opt, check_points, QueriedStations)
          IN  result = [fuel_stops |-> got.fuel_stops, total_cost |-> got.total_cost,
                        check_points |-> check_points]

\* the invariants of a configuration
ValidConfiguration(self) ==
    /\ self.miles_per_gallon > 0
    /\ self.segment_distance > 0
    /\ self.search_radius > 0

\* C13: the construction of a FuelOptimizer with a miles_per_gallon,
\* segment_distance or search_radius that is not positive fails: no such
\* optimizer exists, and none runs calculate_check_points or the cost
\* computation.
C13_InvalidConfigurationFailsFast ==
    /\ ValidConfiguration(opt)
    /\ pc \in {"plan", "select"} => ValidConfiguration(opt)

\* a route with a step that lacks 'distance' or 'way_points', or whose last
\* waypoint index is not one of 0..len(route_geometry)-1
Malformed(r) ==
    \E i \in 1..Len(r.steps) :
        \/ ~HasKey(r.steps[i], "distance")
        \/ ~HasKey(r.steps[i], "way_points")
        \/ /\ HasKey(r.steps[i], "way_points")
           /\ \/ Last(r.steps[i].way_points) < 0
              \/ Last(r.steps[i].way_points) >= Len(r.route_geometry)

\* C14: for every malformed route optimize_fuel_stops ends in an error and
\* returns no check points, stops or cost, whether or not the malformed step
\* is one at which a check point is emitted.
C14_MalformedRouteFails ==
    (pc \notin {"idle", "plan"} /\ Malformed(route)) =>
        /\ pc = "raised"
        /\ check_points = <<>>
        /\ result = NoResult

\* C20: the total cost optimize_fuel_stops returns is at least 0, for every
\* route and every content of the station store.
C20_TotalCostNotNegative ==
    (pc = "done" /\ call = "optimize_fuel_stops") => result.total_cost >= 0

\* C15: a cache.get or cache.set that fails does not end the call: the call
\* goes on with the range query and returns as with a working cache, so no
\* call ends with the cache's exception.
C15_CacheFailureDegrades ==
    pc = "raised" => error # "ConnectionError"

\* the entry of the cache under the key of the running call
CachedForCall == CacheLookup(cache, CacheKey(BoundingBox(check_points)))

\* C16: a range query that fails ends find_stations_in_bounding_box and
\* optimize_fuel_stops in that error: no stations and no stops are returned,
\* the query was issued once, and cache.set was not called, the key holding
\* no station list.
C16_StoreFailurePropagates ==
    error = "OperationalError" =>
        /\ pc = "raised"
        /\ bounded_stations = <<>>
        /\ result = NoResult
        /\ io.queries = 1
        /\ io.sets = 0
        /\ ~Truthy(CachedForCall)

\* the range query of a call with two check points has failed, after an
\* earlier call had filled the cache under another key
C16_Witness ==
    /\ pc = "raised"
    /\ error = "OperationalError"
    /\ call = "optimize_fuel_stops"
    /\ Len(check_points) = 2
    /\ io = [gets |-> 1, queries |-> 1, sets |-> 0]
    /\ cache # <<>>

\* C17: a call of optimize_fuel_stops whose planner yields no check point
\* returns ([], 0, []) at once, without a range query and without a cache
\* get or set; find_stations_in_bounding_box called with no check point
\* returns the empty list, without a range query or a cache get or set.
C17_NoCheckPointsNoStoreNoCache ==
    /\ (call = "optimize_fuel_stops" /\ check_points = <<>>) =>
          /\ pc \in {"idle", "plan", "done", "raised"}
          /\ io = NoIO
          /\ pc = "done" => result = [fuel_stops |-> <<>>, total_cost |-> 0,
                                      check_points |-> <<>>]
    /\ (call = "find_stations_in_bounding_box" /\ check_points = <<>>) =>
          /\ io = NoIO
          /\ bounded_stations = <<>>

\* find_stations_in_bounding_box has returned for an empty list of check
\* points, the cache holding the list of an earlier call
C17_Witness ==
    /\ pc = "done"
    /\ call = "find_stations_in_bounding_box"
    /\ check_points = <<>>
    /\ bounded_stations = <<>>
    /\ cache # <<>>

\* C18: a call of optimize_fuel_stops issues at most one range query,
\* whatever the number of its check points: none without check points, none
\* when cache.get gave it a station list, and exactly one otherwise.
C18_AtMostOneRangeQuery ==
    /\ io.queries <= 1
    /\ check_points = <<>> => io.queries = 0
    /\ pc = "query" => io.queries = 0 /\ ~Truthy(CachedForCall)
    /\ pc = "cache_set" => io.queries = 1
    /\ (pc \in {"select", "done"} /\ check_points # <<>>) =>
          \/ io = [gets |-> 1, queries |-> 0, sets |-> 0] /\ Truthy(CachedForCall)
          \/ io = [gets |-> 1, queries |-> 1, sets |-> 1]

\* a call with two check points has returned after its one range query
C18_Witness ==
    /\ pc = "done"
    /\ call = "optimize_fuel_stops"
    /\ Len(check_points) = 2
    /\ io.queries = 1
    /\ Len(bounded_stations) = 2

\* a call that has been made and has neither returned nor raised
Running(at) == at \in {"plan", "cache_get", "query", "cache_set", "select"}

\* what optimize_fuel_stops returns for the route when it runs alone
AloneCheckPoints ==
    calculate_check_points(opt, route.route_distance, route.steps,
                           route.route_geometry).check_points
AloneStations == RangeQuery(opt, store, BoundingBox(AloneCheckPoints))
AloneResult ==
    IF AloneCheckPoints = <<>> THEN NoResult
    ELSE LET got == find_nearest_cheapest_stations(opt, AloneCheckPoints, AloneStations)
         IN  [fuel_stops |-> got.fuel_stops, total_cost |-> got.total_cost,
              check_points |-> AloneCheckPoints]

\* the two calls in a state: neither waits, and what has returned is what a
\* call alone returns
PairHarmless ==
    /\ Running(pc) => ENABLED Steps
    /\ Running(peer.pc) => ENABLED PeerSteps
    /\ pc # "raised" /\ peer.pc # "raised"
    /\ pc = "done" => result = AloneResult
    /\ peer.pc = "done" => peer.result = AloneResult
    /\ (pc \in {"select", "done"} /\ AloneCheckPoints # <<>>) =>
          bounded_stations = AloneStations
    /\ (peer.pc \in {"select", "done"} /\ AloneCheckPoints # <<>>) =>
          peer.bounded_stations = AloneStations
    /\ (pc = "done" /\ peer.pc = "done" /\ AloneCheckPoints # <<>>) =>
          CacheLookup(cache, CacheKey(BoundingBox(AloneCheckPoints)))
              = [found |-> TRUE, value |-> AloneStations]

\* C19: two calls of optimize_fuel_stops with the same route, over an
\* unchanged store and sharing the cache: under every interleaving of their
\* steps neither waits for the other, both return, both with the stations
\* and the result of a call run alone, and the cache then holds that
\* station list under the key.
C19_ConcurrentCallsHarmless ==
    /\ []PairHarmless
    /\ (pc = "plan" /\ peer.pc = "plan") ~> (pc = "done" /\ peer.pc = "done")

\* both calls missed, both queried and both set the cache, and have returned
\* two stops each
C19_Witness ==
    /\ pc = "done"
    /\ peer.pc = "done"
    /\ io = [gets |-> 1, queries |-> 1, sets |-> 1]
    /\ peer.io = [gets |-> 1, queries |-> 1, sets |-> 1]
    /\ Len(result.fuel_stops) = 2
    /\ peer.result = result

\* the keys of the cache whose entry a step set, changed or removed
Written ==
    {k \in DOMAIN cache \cup DOMAIN cache' :
        ~(k \in DOMAIN cache /\ k \in DOMAIN cache' /\ cache'[k] = cache[k])}

\* C21: a step of a running call leaves the station store, the four fields
\* of the optimizer and the steps and geometry it was handed as they are,
\* and the only cache entry it writes is the one under the key of the box of
\* its own check points.
C21_OptimizerOnlyReads ==
    [][Running(pc) =>
          /\ store' = store
          /\ opt' = opt
          /\ route' = route
          /\ \/ Written = {}
             \/ /\ check_points # <<>>
                /\ Written = {CacheKey(BoundingBox(check_points))}]_vars

\* a call of optimize_fuel_stops over a table with rows has set its cache
\* entry beside the entry of an earlier call, and has returned
C21_Witness ==
    /\ pc = "done"
    /\ call = "optimize_fuel_stops"
    /\ io.sets = 1
    /\ store # <<>>
    /\ Cardinality(DOMAIN cache) >= 2
    /\ CacheKey(BoundingBox(check_points)) \in DOMAIN cache

\* the check points calculate_check_points appended after the for loop
Trailing == SubSeq(check_points, Len(Emitting) + 1, Len(check_points))

\* C22: after the steps, calculate_check_points appends one check point, at
\* the last waypoint of the last step, exactly when there is a step and the
\* accumulator is more than half of segment_distance; an accumulator of
\* exactly half gives none, and a last step that appended a check point
\* itself leaves the accumulator at 0 and gets no second one.
C22_TrailingCheckPoint ==
    pc \notin {"idle", "plan", "raised"} =>
        LET rest == Accumulated(Len(route.steps))
        IN  /\ Len(check_points) >= Len(Emitting)
            /\ Len(Trailing) <= 1
            /\ Len(Trailing) = 1 <=>
                  (route.steps # <<>> /\ 2 * rest > opt.segment_distance)
            /\ Len(Trailing) = 1 => Trailing[1] = StepEnd(Len(route.steps))
            /\ 2 * rest = opt.segment_distance => Len(Trailing) = 0
            /\ (Emitting # <<>> /\ Last(Emitting) = Len(route.steps)) =>
                  /\ rest = 0
                  /\ check_points = [n \in 1..Len(Emitting) |-> StepEnd(Emitting[n])]

\* a route got a check point in the loop and the trailing one after it, at
\* another point, for a rest of less than segment_distance
C22_Witness ==
    /\ Planned
    /\ Len(Emitting) >= 1
    /\ Len(Trailing) = 1
    /\ Last(Emitting) < Len(route.steps)
    /\ 2 * Accumulated(Len(route.steps)) > opt.segment_distance
    /\ Accumulated(Len(route.steps)) < opt.segment_distance
    /\ Trailing[1] # check_points[Len(Emitting)]

\* the stations of the store that pass the rectangular prefilter of a check
\* point of the running call
PassPrefilter ==
    {store[k] : k \in {j \in 1..Len(store) :
        \E i \in 1..Len(check_points) : InRectangle(check_points[i], store[j])}}

\* the stations of the store that pass both filters of a check point
StoreSurvivors(cp) ==
    {store[k] : k \in {j \in 1..Len(store) :
        InRectangle(cp, store[j]) /\ InRadius(cp, store[j])}}

\* C23: the list find_stations_in_bounding_box returns holds every station
\* of the store that passes the rectangular prefilter of one of the check
\* points, so every check point with a station of the store passing both
\* filters gets a stop, and none of these stations is cheaper than the stop.
C23_CandidatesCoverPrefilter ==
    /\ (pc \in {"select", "done"} /\ check_points # <<>>) =>
          PassPrefilter \subseteq {bounded_stations[k] : k \in 1..Len(bounded_stations)}
    /\ (pc = "done" /\ call = "optimize_fuel_stops") =>
          LET served == SelectSeq(check_points, LAMBDA cp : StoreSurvivors(cp) # {})
          IN  /\ Len(fuel_stops) = Len(served)
              /\ \A i \in 1..Len(fuel_stops) : \A station \in StoreSurvivors(served[i]) :
                    fuel_stops[i].price <= station.retail_price

\* the stops and the cost find_nearest_cheapest_stations gives for one check
\* point processed alone, with the candidates of the running call
Alone(cp) == find_nearest_cheapest_stations(opt, <<cp>>, bounded_stations)

\* the stops of the check points of a list, each processed alone, and their
\* costs added up
RECURSIVE StopsEachAlone(_)
StopsEachAlone(cps) ==
    IF cps = <<>> THEN <<>>
    ELSE Alone(Head(cps)).fuel_stops \o StopsEachAlone(Tail(cps))
RECURSIVE CostEachAlone(_)
CostEachAlone(cps) ==
    IF cps = <<>> THEN 0
    ELSE Alone(Head(cps)).total_cost + CostEachAlone(Tail(cps))

\* the orders the n check points of a call can be processed in
Orders(n) == {p \in [1..n -> 1..n] : \A i, j \in 1..n : i # j => p[i] # p[j]}

\* another vehicle with the same search_radius
OtherVehicle == [opt EXCEPT !.miles_per_gallon = 7, !.segment_distance = 350]

\* C24: the stop of a check point is the one it gets when it is processed
\* alone with the same candidates: the stops and the cost of a call are those
\* of its check points one by one, in whatever order the check points are
\* processed, and the stops are the same for a vehicle that differs in
\* everything but search_radius.
C24_SelectionPerCheckPoint ==
    pc = "done" =>
        /\ fuel_stops = StopsEachAlone(check_points)
        /\ result.total_cost = CostEachAlone(check_points)
        /\ \A p \in Orders(Len(check_points)) :
              LET cps == [i \in 1..Len(check_points) |-> check_points[p[i]]]
                  got == find_nearest_cheapest_stations(opt, cps, bounded_stations)
              IN  /\ got.fuel_stops = StopsEachAlone(cps)
                  /\ got.total_cost = result.total_cost
        /\ find_nearest_cheapest_stations(OtherVehicle, check_points,
                                          bounded_stations).fuel_stops = fuel_stops

\* one station was chosen for two check points of a call while another
\* candidate could have served the second of them
C24_Witness ==
    /\ pc = "done"
    /\ Len(check_points) >= 2
    /\ Len(fuel_stops) >= 2
    /\ Survivors(check_points[1]) # {} /\ Survivors(check_points[2]) # {}
    /\ fuel_stops[1].name = fuel_stops[2].name
    /\ Cardinality(Survivors(check_points[2])) = 2

\* the candidate list in another order
Reordered(p) == [k \in 1..Len(bounded_stations) |-> bounded_stations[p[k]]]

\* C25: find_nearest_cheapest_stations returns the same stops and the same
\* total cost for the candidate list in every order.
C25_CandidateOrderIrrelevant ==
    pc = "done" =>
        \A p \in Orders(Len(bounded_stations)) :
            LET got == find_nearest_cheapest_stations(opt, check_points, Reordered(p))
            IN  /\ got.fuel_stops = fuel_stops
                /\ got.total_cost = result.total_cost

\* C26: once a list is stored under the key of a call's box, the call is
\* served from the cache and issues no range query, whatever the list is,
\* the empty list included: a call reaches its range query only when no
\* entry is under its key, and a call that found an entry returns it.
C26_CachedResultServed ==
    /\ pc = "query" => ~CachedForCall.found
    /\ (pc \in {"select", "done"} /\ check_points # <<>> /\ io.queries = 0) =>
          (CachedForCall.found /\ bounded_stations = CachedForCall.value)

\* the stages of route_by_name, in the order of its lines
Stages == <<"geocode_start", "geocode_finish", "get_route", "extract_route_info",
            "optimize_fuel_stops", "generate_map">>

\* the stage at which the request failed, or "" when none has
FailedAt ==
    IF view.ran # <<>> /\ Last(view.ran).outcome \in {"none", "raised"}
    THEN Last(view.ran).stage ELSE ""

\* C27: the stages of route_by_name run in the fixed order, each only
\* after those before it succeeded, and none after a failure; a request
\* gets one response at most, which is 200 exactly when every stage
\* succeeded, 400 exactly for a missing input or a failed geocode, and 500
\* exactly for a failure of the routing or of a later stage.
C27_PipelineOrderAndResponse ==
    /\ Len(view.ran) <= Len(Stages)
    /\ \A i \in 1..Len(view.ran) :
          /\ view.ran[i].stage = Stages[i]
          /\ i < Len(view.ran) => view.ran[i].outcome = "ok"
    /\ Len(view.responses) <= 1
    /\ view.at = "responded" <=> Len(view.responses) = 1
    /\ view.at = "responded" =>
          LET code == view.responses[1]
          IN  /\ code \in {200, 400, 500}
              /\ code = 200 <=>
                    (Len(view.ran) = Len(Stages) /\ Last(view.ran).outcome = "ok")
              /\ code = 400 <=>
                    (view.ran = <<>> \/ FailedAt \in {"geocode_start", "geocode_finish"})
              /\ code = 500 <=>
                    FailedAt \in {"get_route", "extract_route_info",
                                  "optimize_fuel_stops", "generate_map"}

=============================================================================
